---- MODULE Spec2Model ----
(* Model of career_monitor.py: the title-list diff (compare_top_jobs), the  *)
(* alert composer (send_email_alert) and the run loop of main() together    *)
(* with the JSON snapshot store it reads and overwrites.                    *)
(*                                                                          *)
(* What can fail is what the code guards: creating the browser and page     *)
(* (outer try), page.goto / page.screenshot (the loop's try), the count     *)
(* extraction (returns None), the SMTP calls and the two file writes.       *)
(* extract_job_count and extract_top_jobs catch every exception themselves, *)
(* compare_top_jobs cannot raise on lists of strings, and browser.close()   *)
(* and print() are taken not to raise.                                      *)
EXTENDS Integers, Sequences, FiniteSets, TLC

(***************************************************************************)
(* Bounds of the model.                                                    *)
(***************************************************************************)
\* largest job count an extraction can return
MaxCount == 1
\* longest list handed to compare_top_jobs in the comparison model
CmpMaxLen == 3
\* largest count in a changes mapping handed to send_email_alert on its own
MailMaxCount == 2

\* titles seen by the comparison model
CmpTitles == {"A", "B", "C", "D"}

RECURSIVE ListsUpTo(_, _)
ListsUpTo(S, n) ==
    IF n = 0 THEN {<<>>}
    ELSE LET shorter == ListsUpTo(S, n - 1)
         IN  shorter \cup {Append(l, x) : l \in {m \in shorter : Len(m) = n - 1}, x \in S}

Range(s) == {s[i] : i \in 1..Len(s)}

(***************************************************************************)
(* Python list helpers used by compare_top_jobs.                           *)
(***************************************************************************)
\* x in lst
In(x, lst) == \E i \in 1..Len(lst) : lst[i] = x

\* lst.index(x): 0-based index of the first occurrence
index(lst, x) ==
    (CHOOSE i \in 1..Len(lst) : lst[i] = x /\ \A j \in 1..(i - 1) : lst[j] # x) - 1

NewRec(t, p) == [action |-> "new", job_title |-> t, position |-> p]
RemovedRec(t, p) == [action |-> "removed", job_title |-> t, position |-> p]
MovedRec(t, o, n) ==
    [action |-> "moved", job_title |-> t, old_position |-> o, new_position |-> n]

\* first-run branch: for job in current_jobs: position = current_jobs.index(job) + 1
RECURSIVE FirstRunLoop(_, _)
FirstRunLoop(current_jobs, n) ==
    IF n >= Len(current_jobs) THEN <<>>
    ELSE <<NewRec(current_jobs[n + 1], index(current_jobs, current_jobs[n + 1]) + 1)>>
         \o FirstRunLoop(current_jobs, n + 1)

\* for i, job in enumerate(current_jobs): if job not in previous_jobs: new at i + 1
RECURSIVE NewLoop(_, _, _)
NewLoop(current_jobs, previous_jobs, i) ==
    IF i >= Len(current_jobs) THEN <<>>
    ELSE (IF ~In(current_jobs[i + 1], previous_jobs)
          THEN <<NewRec(current_jobs[i + 1], i + 1)>> ELSE <<>>)
         \o NewLoop(current_jobs, previous_jobs, i + 1)

\* for job in previous_jobs: if job not in current_jobs: removed at previous_jobs.index(job) + 1
RECURSIVE RemovedLoop(_, _, _)
RemovedLoop(current_jobs, previous_jobs, n) ==
    IF n >= Len(previous_jobs) THEN <<>>
    ELSE (IF ~In(previous_jobs[n + 1], current_jobs)
          THEN <<RemovedRec(previous_jobs[n + 1],
                            index(previous_jobs, previous_jobs[n + 1]) + 1)>>
          ELSE <<>>)
         \o RemovedLoop(current_jobs, previous_jobs, n + 1)

\* faulty variant of MovedLoop: the old_position != new_position test is dropped
RECURSIVE MovedLoop_nocheck(_, _, _)
MovedLoop_nocheck(current_jobs, previous_jobs, i) ==
    IF i >= Len(current_jobs) THEN <<>>
    ELSE (IF In(current_jobs[i + 1], previous_jobs)
          THEN <<MovedRec(current_jobs[i + 1],
                          index(previous_jobs, current_jobs[i + 1]) + 1, i + 1)>>
          ELSE <<>>)
         \o MovedLoop_nocheck(current_jobs, previous_jobs, i + 1)

\* for i, job in enumerate(current_jobs): if job in previous_jobs and the
\* positions differ: moved from previous_jobs.index(job) + 1 to i + 1
RECURSIVE MovedLoop(_, _, _)
MovedLoop(current_jobs, previous_jobs, i) ==
    IF i >= Len(current_jobs) THEN <<>>
    ELSE (IF In(current_jobs[i + 1], previous_jobs)
             /\ index(previous_jobs, current_jobs[i + 1]) + 1 # i + 1
          THEN <<MovedRec(current_jobs[i + 1],
                          index(previous_jobs, current_jobs[i + 1]) + 1, i + 1)>>
          ELSE <<>>)
         \o MovedLoop(current_jobs, previous_jobs, i + 1)

compare_top_jobs(current_jobs, previous_jobs) ==
    IF previous_jobs = <<>>
    THEN FirstRunLoop(current_jobs, 0)
    ELSE NewLoop(current_jobs, previous_jobs, 0)
         \o RemovedLoop(current_jobs, previous_jobs, 0)
         \o MovedLoop(current_jobs, previous_jobs, 0)

(***************************************************************************)
(* Configuration: TARGET_URLS and the mail environment.                    *)
(* The repository configures one source; the model configures two so that  *)
(* the multi-source paths of main() and send_email_alert are exercised.    *)
(***************************************************************************)
\* keys of TARGET_URLS in dict (insertion) order
SOURCE_KEYS == <<"s1", "s2">>
Sources == Range(SOURCE_KEYS)
TARGET_URLS == [k \in Sources |-> [name |-> <<"name", k>>, url |-> <<"url", k>>]]

\* one comma-separated field of RECIPIENT_EMAILS: optional blanks around an address
Field(pad, addr) == [pad |-> pad, addr |-> addr]
\* str.strip() of a field
strip(f) == f.addr
\* the string is non-empty (Python truthiness); "".split(",") is [""]
NonEmptyStr(fields) == ~(Len(fields) = 1 /\ ~fields[1].pad /\ fields[1].addr = "")

MkEnv(sender, password, recipients) ==
    [SENDER_EMAIL |-> sender, SENDER_PASSWORD |-> password, RECIPIENT_EMAILS |-> recipients]
Envs ==
    { MkEnv("me@x", "pw", <<Field(FALSE, "a@x"), Field(TRUE, "b@x")>>),
      MkEnv("", "pw", <<Field(FALSE, "a@x")>>),
      MkEnv("me@x", "", <<Field(FALSE, "a@x")>>),
      MkEnv("me@x", "pw", <<Field(FALSE, "")>>),
      MkEnv("me@x", "pw", <<Field(TRUE, ""), Field(TRUE, "")>>) }

\* what the SMTP transport does: all calls succeed; SMTP()/starttls()/login()
\* raises; sendmail() raises; quit() raises after sendmail() returned
SmtpOutcomes == {"ok", "raise_before_send", "raise_in_send", "raise_after_send"}

(***************************************************************************)
(* send_email_alert                                                        *)
(***************************************************************************)
\* keys of dict d in insertion order (main() inserts in TARGET_URLS order)
Keys(d) == SelectSeq(SOURCE_KEYS, LAMBDA k : k \in DOMAIN d)

\* {k: v for k, v in changes.items() if v['current'] > v['previous']}
categories_filter_ne(changes) ==
    LET keep == {k \in DOMAIN changes : changes[k].current # changes[k].previous}
    IN  [k \in keep |-> changes[k]]

categories_filter(changes) ==
    LET keep == {k \in DOMAIN changes : changes[k].current > changes[k].previous}
    IN  [k \in keep |-> changes[k]]

\* sum(data['current'] - data['previous'] for data in d.values())
RECURSIVE SumDeltas(_, _)
SumDeltas(d, ks) ==
    IF ks = <<>> THEN 0
    ELSE (d[Head(ks)].current - d[Head(ks)].previous) + SumDeltas(d, Tail(ks))

\* faulty variant of Subject: the single-source wording reports the current count
Subject_current(cats) ==
    IF Len(Keys(cats)) = 1
    THEN [kind |-> "single", source_name |-> cats[Keys(cats)[1]].name,
          change |-> cats[Keys(cats)[1]].current]
    ELSE [kind |-> "categories", categories |-> Len(Keys(cats)),
          total_new_jobs |-> SumDeltas(cats, Keys(cats))]

\* "<source_name>: <change> new jobs posted!" when one category has new jobs,
\* "<n> categories: <total_new_jobs> new jobs posted!" otherwise
Subject(cats) ==
    IF Len(Keys(cats)) = 1
    THEN [kind |-> "single", source_name |-> cats[Keys(cats)[1]].name,
          change |-> cats[Keys(cats)[1]].current - cats[Keys(cats)[1]].previous]
    ELSE [kind |-> "categories", categories |-> Len(Keys(cats)),
          total_new_jobs |-> SumDeltas(cats, Keys(cats))]

\* one body section per category with new jobs
Section(k, data, top_jobs) ==
    [key |-> k, name |-> data.name, change |-> data.current - data.previous,
     top_jobs |-> IF DOMAIN top_jobs # {} /\ k \in DOMAIN top_jobs
                  THEN <<top_jobs[k]>> ELSE <<>>,
     url |-> data.url]

Message(cats, top_jobs, env, recipient_list) ==
    [from |-> env.SENDER_EMAIL, to |-> recipient_list, subject |-> Subject(cats),
     sections |-> [n \in 1..Len(Keys(cats)) |->
                     Section(Keys(cats)[n], cats[Keys(cats)[n]], top_jobs)]]

\* outcome of a call: the value returned (meaningless when raised), the message
\* built (<<>> when none), the number of sendmail() calls that completed, and
\* whether an exception leaves the function
AlertResult(ret, msg, delivered, raised) ==
    [returned |-> ret, msg |-> msg, delivered |-> delivered, raised |-> raised]

\* [email.strip() for email in RECIPIENT_EMAILS.split(',') if email.strip()]
recipient_list(env) ==
    LET fs == SelectSeq(env.RECIPIENT_EMAILS, LAMBDA f : strip(f) # "")
    IN  [n \in 1..Len(fs) |-> strip(fs[n])]

\* the body of the try block
alert_body(changes, top_jobs, env, smtp) ==
    LET cats == categories_filter(changes)
        msg == Message(cats, top_jobs, env, recipient_list(env))
    IN  IF DOMAIN cats = {} THEN AlertResult(FALSE, <<>>, 0, FALSE)
        ELSE IF smtp = "ok" THEN AlertResult(TRUE, <<msg>>, 1, FALSE)
        ELSE IF smtp = "raise_after_send" THEN AlertResult(TRUE, <<msg>>, 1, TRUE)
        ELSE AlertResult(TRUE, <<msg>>, 0, TRUE)

\* faulty variant of alert_except: the exception is not caught
alert_except_reraise(r) == r

\* except Exception: print, return False
alert_except(r) ==
    IF r.raised THEN [r EXCEPT !.returned = FALSE, !.raised = FALSE] ELSE r

send_email_alert(changes, top_jobs, env, smtp) ==
    IF ~(env.SENDER_EMAIL # "" /\ env.SENDER_PASSWORD # ""
         /\ NonEmptyStr(env.RECIPIENT_EMAILS))
    THEN AlertResult(FALSE, <<>>, 0, FALSE)
    ELSE IF recipient_list(env) = <<>>
    THEN AlertResult(FALSE, <<>>, 0, FALSE)
    ELSE alert_except(alert_body(changes, top_jobs, env, smtp))

\* the transport is reached only when a message was built
SmtpReached(changes, env) ==
    /\ env.SENDER_EMAIL # "" /\ env.SENDER_PASSWORD # ""
    /\ NonEmptyStr(env.RECIPIENT_EMAILS)
    /\ recipient_list(env) # <<>>
    /\ DOMAIN categories_filter(changes) # {}

(***************************************************************************)
(* Snapshot store: known_job_counts.json and known_top_jobs.json           *)
(***************************************************************************)
EmptyDict == [k \in {} |-> 0]

\* a file on disk: absent, holding a JSON document, or holding a truncated one
AbsentFile == [state |-> "absent", text |-> <<>>]
CorruptFile == [state |-> "corrupt", text |-> <<>>]
JsonFile(text) == [state |-> "json", text |-> text]

\* json.dump of a dict: the key/value members in dict order
JsonDump(d) == [n \in 1..Len(Keys(d)) |-> <<Keys(d)[n], d[Keys(d)[n]]>>]

\* json.load: the dict of the members (a later member wins)
JsonLoad(text) ==
    [k \in {text[n][1] : n \in 1..Len(text)} |->
        text[CHOOSE n \in 1..Len(text) :
                text[n][1] = k /\ \A m \in (n + 1)..Len(text) : text[m][1] # k][2]]

\* faulty variant of load_known: the stored document is ignored
load_known_empty(file) == EmptyDict

\* load_known_job_counts / load_known_top_jobs: {} when the file does not
\* exist or cannot be parsed
load_known(file) ==
    IF file.state = "json" THEN JsonLoad(file.text) ELSE EmptyDict

\* what happens to a save: it succeeds, open() raises (file untouched), or
\* the write raises after the file was truncated
SaveOutcomes == {"ok", "open_raises", "dump_raises"}

\* faulty variant of save_file: the stored document is updated, not replaced
save_file_merge(file, d, outcome) ==
    IF outcome = "ok"
    THEN JsonFile(JsonDump([k \in DOMAIN load_known(file) \cup DOMAIN d |->
                              IF k \in DOMAIN d THEN d[k] ELSE load_known(file)[k]]))
    ELSE IF outcome = "open_raises" THEN file
    ELSE CorruptFile

\* save_job_counts / save_top_jobs: the file after the call
save_file(file, d, outcome) ==
    IF outcome = "ok" THEN JsonFile(JsonDump(d))
    ELSE IF outcome = "open_raises" THEN file
    ELSE CorruptFile

(***************************************************************************)
(* State                                                                   *)
(***************************************************************************)
VARIABLES
    file_counts,       \* known_job_counts.json
    file_top,          \* known_top_jobs.json
    pc,                \* position of main(): idle, loop, notify, save, done
    started,           \* the browser and its page were created in this run
    i,                 \* number of TARGET_URLS entries the loop has handled
    known_counts, known_top_jobs,
    current_counts, current_top_jobs,
    changes, increases, job_changes,
    seen,              \* per handled source: what the iteration observed
    alert,             \* <<>> or <<the send_email_alert call of this run>>
    calls,             \* send/save calls main() made in this run, in order
    result,            \* "running", or the value main() returned
    last,              \* summary of the run that ended last
    cmp_in, cmp_out,   \* compare_top_jobs called on its own
    mail_in, mail_out  \* send_email_alert called on its own

run_vars == <<file_counts, file_top, pc, started, i, known_counts, known_top_jobs,
              current_counts, current_top_jobs, changes, increases, job_changes,
              seen, alert, calls, result, last>>
cmp_vars == <<cmp_in, cmp_out>>
mail_vars == <<mail_in, mail_out>>
vars == <<run_vars, cmp_vars, mail_vars>>

\* optional values: <<>> is None, <<v>> is v
None == <<>>
Some(v) == <<v>>

OptCounts == {None} \cup {Some(c) : c \in 0..MaxCount}
\* what extract_top_jobs returns inside the run model: no title or one title
\* (a title appears or disappears between runs); the shapes of longer lists
\* are the subject of the comparison model
RunLists == {<<>>, <<"A">>}
CmpLists == ListsUpTo(CmpTitles, CmpMaxLen)

\* d.get(k)
Get(d, k) == IF k \in DOMAIN d THEN Some(d[k]) ELSE None
\* d[k] = v
Put(d, k, v) == [x \in DOMAIN d \cup {k} |-> IF x = k THEN v ELSE d[x]]

(***************************************************************************)
(* main(): one loop iteration                                              *)
(***************************************************************************)
ChangeRec(k, previous_count, current_count) ==
    [name |-> TARGET_URLS[k].name, url |-> TARGET_URLS[k].url,
     previous |-> previous_count, current |-> current_count]

\* faulty variant of count_changes: every changed count is tracked as an increase
count_changes_all(k, current_count, previous_count, chg, inc) ==
    IF previous_count = None \/ current_count = previous_count[1]
    THEN [changes |-> chg, increases |-> inc]
    ELSE [changes |-> Put(chg, k, ChangeRec(k, previous_count[1], current_count)),
          increases |-> Put(inc, k, ChangeRec(k, previous_count[1], current_count))]

\* the count comparison of the loop body: the updated changes and increases
count_changes(k, current_count, previous_count, chg, inc) ==
    IF previous_count = None
    THEN [changes |-> chg, increases |-> inc]
    ELSE IF current_count # previous_count[1]
    THEN [changes |-> Put(chg, k, ChangeRec(k, previous_count[1], current_count)),
          increases |-> IF current_count > previous_count[1]
                        THEN Put(inc, k, ChangeRec(k, previous_count[1], current_count))
                        ELSE inc]
    ELSE [changes |-> chg, increases |-> inc]

\* faulty variant of count_or_zero: a failed extraction keeps the stored count
count_or_zero_keep(ret, previous_count) ==
    IF ret = None THEN (IF previous_count = None THEN 0 ELSE previous_count[1]) ELSE ret[1]

\* if current_count is None: current_count = 0
count_or_zero(ret, previous_count) == IF ret = None THEN 0 ELSE ret[1]

\* faulty variant of after_iteration: an error in one source ends the loop
after_iteration_break(n, raised) ==
    IF raised \/ n + 1 >= Len(SOURCE_KEYS) THEN "notify" ELSE "loop"

\* where main() is after iteration n of the for loop: `continue` in the
\* except clause and the normal end of the body both go to the next entry
after_iteration(n, raised) ==
    IF n + 1 >= Len(SOURCE_KEYS) THEN "notify" ELSE "loop"

Observation(nav, ret, previous_count, jobs) ==
    [nav |-> nav, count |-> ret, previous_count |-> previous_count, jobs |-> jobs]

\* what the next run can depend on: whether save_job_counts stored the counts,
\* the counts it stored, and which sources were first observations or outages
RunSummary(outcome) ==
    [saved |-> outcome = "ok",
     recorded |-> IF outcome = "ok" THEN current_counts ELSE EmptyDict,
     first |-> {k \in DOMAIN current_counts : k \notin DOMAIN known_counts},
     outage |-> {k \in DOMAIN current_counts : seen[k].count = None},
     raised |-> {}, dropped |-> {}]

\* the summary kept when failed sources are followed into the next run: whether
\* save_job_counts stored the counts, which sources raised, and which of those
\* had a stored count
RaiseSummary(outcome) ==
    [saved |-> outcome = "ok", recorded |-> EmptyDict, first |-> {}, outage |-> {},
     raised |-> {k \in DOMAIN seen : seen[k].nav = "raise"},
     dropped |-> {k \in DOMAIN seen : seen[k].nav = "raise" /\ k \in DOMAIN known_counts}]

NoRun ==
    [saved |-> FALSE, recorded |-> EmptyDict, first |-> {}, outage |-> {},
     raised |-> {}, dropped |-> {}]

\* main() up to the for loop: the browser is launched and the stores are loaded;
\* a failure here is caught by the outer except and main() returns False
Launch ==
    /\ pc \in {"idle", "done"}
    /\ \E ok \in BOOLEAN :
         /\ started' = ok
         /\ last' = IF ok THEN last ELSE NoRun
         /\ known_counts' = IF ok THEN load_known(file_counts) ELSE EmptyDict
         /\ known_top_jobs' = IF ok THEN load_known(file_top) ELSE EmptyDict
         /\ pc' = IF ok THEN "loop" ELSE "done"
         /\ result' = IF ok THEN "running" ELSE "False"
    /\ current_counts' = EmptyDict /\ current_top_jobs' = EmptyDict
    /\ changes' = EmptyDict /\ increases' = EmptyDict /\ job_changes' = EmptyDict
    /\ seen' = EmptyDict /\ alert' = None /\ calls' = <<>> /\ i' = 0
    /\ UNCHANGED <<file_counts, file_top, cmp_vars, mail_vars>>

\* one iteration of `for source_key, config in TARGET_URLS.items()`
ProcessSource ==
    /\ pc = "loop"
    /\ LET k == SOURCE_KEYS[i + 1]
           previous_count == Get(known_counts, k)
           previous_jobs == IF k \in DOMAIN known_top_jobs THEN known_top_jobs[k] ELSE <<>>
       IN  \E nav \in {"ok", "raise"} :
             /\ IF nav = "raise"
                THEN \* page.goto or page.screenshot raised
                     /\ seen' = Put(seen, k, Observation("raise", None, None, <<>>))
                     /\ UNCHANGED <<current_counts, current_top_jobs, changes,
                                    increases, job_changes>>
                ELSE \E ret \in OptCounts, jobs \in RunLists :
                     LET current_count == count_or_zero(ret, previous_count)
                         job_changes_list == compare_top_jobs(jobs, previous_jobs)
                         cc == count_changes(k, current_count, previous_count,
                                             changes, increases)
                     IN  /\ seen' = Put(seen, k, Observation("ok", ret, previous_count, jobs))
                         /\ current_counts' = Put(current_counts, k, current_count)
                         /\ current_top_jobs' = Put(current_top_jobs, k, jobs)
                         /\ job_changes' = IF job_changes_list # <<>>
                                           THEN Put(job_changes, TARGET_URLS[k].name,
                                                    job_changes_list)
                                           ELSE job_changes
                         /\ changes' = cc.changes
                         /\ increases' = cc.increases
             /\ pc' = after_iteration(i, nav = "raise")
    /\ i' = i + 1
    /\ UNCHANGED <<file_counts, file_top, started, known_counts, known_top_jobs,
                   alert, calls, result, last, cmp_vars, mail_vars>>

\* faulty variant of Notify: a failed alert ends the run
Notify_strict ==
    /\ pc = "notify"
    /\ IF DOMAIN increases # {}
       THEN \E env \in Envs :
            \E smtp \in IF SmtpReached(increases, env) THEN SmtpOutcomes ELSE {"not_reached"} :
              LET res == send_email_alert(increases, current_top_jobs, env, smtp)
              IN  /\ alert' = Some([env |-> env, res |-> res, smtp |-> smtp])
                  /\ calls' = Append(calls, [fn |-> "send_email_alert",
                                             arg |-> increases, outcome |-> "called"])
                  /\ pc' = IF res.raised \/ ~res.returned THEN "done" ELSE "save"
                  /\ result' = IF res.raised \/ ~res.returned THEN "False" ELSE result
       ELSE /\ pc' = "save"
            /\ UNCHANGED <<alert, calls, result>>
    /\ UNCHANGED <<file_counts, file_top, started, i, known_counts, known_top_jobs,
                   current_counts, current_top_jobs, changes, increases, job_changes,
                   seen, last, cmp_vars, mail_vars>>

\* browser.close() and `if increases: send_email_alert(...)`; an exception
\* leaving send_email_alert would reach the outer except
Notify ==
    /\ pc = "notify"
    /\ IF DOMAIN increases # {}
       THEN \E env \in Envs :
            \E smtp \in IF SmtpReached(increases, env) THEN SmtpOutcomes ELSE {"not_reached"} :
              LET res == send_email_alert(increases, current_top_jobs, env, smtp)
              IN  /\ alert' = Some([env |-> env, res |-> res, smtp |-> smtp])
                  /\ calls' = Append(calls, [fn |-> "send_email_alert",
                                             arg |-> increases, outcome |-> "called"])
                  /\ pc' = IF res.raised THEN "done" ELSE "save"
                  /\ result' = IF res.raised THEN "False" ELSE result
       ELSE /\ pc' = "save"
            /\ UNCHANGED <<alert, calls, result>>
    /\ UNCHANGED <<file_counts, file_top, started, i, known_counts, known_top_jobs,
                   current_counts, current_top_jobs, changes, increases, job_changes,
                   seen, last, cmp_vars, mail_vars>>

\* save_job_counts(current_counts); save_top_jobs(current_top_jobs); return True
SaveWith(erase) ==
    /\ pc = "save"
    /\ \E o1 \in SaveOutcomes, o2 \in SaveOutcomes :
         /\ file_counts' = save_file(file_counts, current_counts, o1)
         /\ file_top' = save_file(file_top, current_top_jobs, o2)
         /\ calls' = calls \o <<[fn |-> "save_job_counts", arg |-> current_counts,
                                 outcome |-> o1],
                                [fn |-> "save_top_jobs", arg |-> current_top_jobs,
                                 outcome |-> o2]>>
         /\ last' = IF erase THEN RaiseSummary(o1) ELSE RunSummary(o1)
    /\ pc' = "done"
    /\ result' = "True"
    /\ UNCHANGED <<started, i, known_counts, known_top_jobs, current_counts,
                   current_top_jobs, changes, increases, job_changes, seen, alert,
                   cmp_vars, mail_vars>>

Save == SaveWith(FALSE)
SaveErase == SaveWith(TRUE)

CmpIdle == cmp_in = [current |-> <<>>, previous |-> <<>>] /\ cmp_out = None
MailIdle ==
    /\ mail_in = [changes |-> EmptyDict, top_jobs |-> EmptyDict,
                  env |-> CHOOSE e \in Envs : TRUE, smtp |-> "ok"]
    /\ mail_out = None

RunInit ==
    /\ file_counts = AbsentFile /\ file_top = AbsentFile
    /\ pc = "idle" /\ started = FALSE /\ i = 0
    /\ known_counts = EmptyDict /\ known_top_jobs = EmptyDict
    /\ current_counts = EmptyDict /\ current_top_jobs = EmptyDict
    /\ changes = EmptyDict /\ increases = EmptyDict /\ job_changes = EmptyDict
    /\ seen = EmptyDict /\ alert = None /\ calls = <<>>
    /\ result = "running" /\ last = NoRun

Init == RunInit /\ CmpIdle /\ MailIdle
Next == Launch \/ ProcessSource \/ Notify \/ Save
Spec == Init /\ [][Next]_vars

\* the same runs, with the summary that follows failed sources
NextErase == Launch \/ ProcessSource \/ Notify \/ SaveErase
SpecErase == Init /\ [][NextErase]_vars

(***************************************************************************)
(* compare_top_jobs on its own: the lists are drawn, then it is called.    *)
(***************************************************************************)
InitCmp ==
    /\ RunInit /\ MailIdle
    /\ cmp_in \in [current : CmpLists, previous : CmpLists]
    /\ cmp_out = None

Compare ==
    /\ cmp_out = None
    /\ cmp_out' = Some(compare_top_jobs(cmp_in.current, cmp_in.previous))
    /\ UNCHANGED <<cmp_in, run_vars, mail_vars>>

SpecCmp == InitCmp /\ [][Compare]_vars

(***************************************************************************)
(* send_email_alert on its own: any changes mapping, environment and       *)
(* transport behaviour.                                                    *)
(***************************************************************************)
ChangeMaps ==
    UNION { { [k \in D |-> ChangeRec(k, f[k][1], f[k][2])] :
                f \in [D -> (0..MailMaxCount) \X (0..MailMaxCount)] } :
            D \in SUBSET Sources }

TopJobMaps == {EmptyDict, [k \in Sources |-> <<"A">>]}

InitMail ==
    /\ RunInit /\ CmpIdle
    /\ mail_in \in [changes : ChangeMaps, top_jobs : TopJobMaps,
                    env : Envs, smtp : SmtpOutcomes]
    /\ mail_out = None

SendAlert ==
    /\ mail_out = None
    /\ mail_out' = Some(send_email_alert(mail_in.changes, mail_in.top_jobs,
                                         mail_in.env, mail_in.smtp))
    /\ UNCHANGED <<mail_in, run_vars, cmp_vars>>

SpecMail == InitMail /\ [][SendAlert]_vars

(***************************************************************************)
(* Properties                                                              *)
(***************************************************************************)
NoRepeat(l) == \A a, b \in 1..Len(l) : a # b => l[a] # l[b]
Pos(l, t) == CHOOSE n \in 1..Len(l) : l[n] = t
FirstPos(l, t) == CHOOSE n \in 1..Len(l) : l[n] = t /\ \A m \in 1..(n - 1) : l[m] # t

ExpectedDiff(cur, prev) ==
    {NewRec(t, Pos(cur, t)) : t \in Range(cur) \ Range(prev)}
    \cup {RemovedRec(t, Pos(prev, t)) : t \in Range(prev) \ Range(cur)}
    \cup {MovedRec(t, Pos(prev, t), Pos(cur, t)) :
            t \in {u \in Range(cur) \cap Range(prev) : Pos(cur, u) # Pos(prev, u)}}

HasAction(out, a) == \E n \in 1..Len(out) : out[n].action = a

\* C2: for lists without repeated titles compare_top_jobs returns exactly the
\* New records of the titles only in current (at their position in current),
\* the Removed records of the titles only in previous (at their position in
\* previous) and the Moved records of the titles in both whose positions
\* differ, each once, and nothing for a title that kept its position.
C2_DiffOfDistinctLists ==
    (cmp_out # None /\ NoRepeat(cmp_in.current) /\ NoRepeat(cmp_in.previous))
    => /\ Range(cmp_out[1]) = ExpectedDiff(cmp_in.current, cmp_in.previous)
       /\ Len(cmp_out[1]) = Cardinality(ExpectedDiff(cmp_in.current, cmp_in.previous))

C2_Witness ==
    /\ cmp_out # None
    /\ NoRepeat(cmp_in.current) /\ NoRepeat(cmp_in.previous)
    /\ HasAction(cmp_out[1], "new") /\ HasAction(cmp_out[1], "removed")
    /\ HasAction(cmp_out[1], "moved")
    /\ \E t \in Range(cmp_in.current) : 
          /\ In(t, cmp_in.previous)
          /\ Pos(cmp_in.current, t) = Pos(cmp_in.previous, t)

\* C3: with repeated titles every reported position is the index of the
\* title's first occurrence in the list concerned, and a title whose first
\* occurrences are at the same index in both lists gets no Moved record.
C3_FirstOccurrence ==
    cmp_out # None
    => \A n \in 1..Len(cmp_out[1]) :
         LET r == cmp_out[1][n]
         IN  /\ r.action = "new" => r.position = FirstPos(cmp_in.current, r.job_title)
             /\ r.action = "removed" => r.position = FirstPos(cmp_in.previous, r.job_title)
             /\ r.action = "moved" =>
                  /\ r.old_position = FirstPos(cmp_in.previous, r.job_title)
                  /\ r.new_position = FirstPos(cmp_in.current, r.job_title)
                  /\ FirstPos(cmp_in.previous, r.job_title)
                       # FirstPos(cmp_in.current, r.job_title)

Increased(chg) == {k \in DOMAIN chg : chg[k].current > chg[k].previous}

RECURSIVE SumOver(_, _)
SumOver(S, chg) ==
    IF S = {} THEN 0
    ELSE LET k == CHOOSE x \in S : TRUE
         IN  (chg[k].current - chg[k].previous) + SumOver(S \ {k}, chg)

\* C6: the subject of a built message names the source and its delta when
\* exactly one source has current > previous, and otherwise states the number
\* of such sources and the sum of their deltas.
C6_SubjectPolicy ==
    (mail_out # None /\ mail_out[1].msg # <<>>)
    => LET inc == Increased(mail_in.changes)
           subject == mail_out[1].msg[1].subject
       IN  IF Cardinality(inc) = 1
           THEN \E k \in inc :
                  subject = [kind |-> "single", source_name |-> mail_in.changes[k].name,
                             change |-> mail_in.changes[k].current
                                        - mail_in.changes[k].previous]
           ELSE subject = [kind |-> "categories", categories |-> Cardinality(inc),
                           total_new_jobs |-> SumOver(inc, mail_in.changes)]

C6_Witness ==
    /\ mail_out # None /\ mail_out[1].msg # <<>>
    /\ Cardinality(Increased(mail_in.changes)) = 2
    /\ mail_out[1].msg[1].subject.total_new_jobs = 3

\* C7: a built message lists exactly the sources whose current count exceeds
\* their previous count, and when no source has an increase nothing is built
\* or sent and the call returns False.
C7_OnlyIncreasesListed ==
    mail_out # None
    => LET inc == Increased(mail_in.changes)
           res == mail_out[1]
       IN  /\ res.msg # <<>> =>
                /\ {res.msg[1].sections[n].key : n \in 1..Len(res.msg[1].sections)} = inc
                /\ Len(res.msg[1].sections) = Cardinality(inc)
           /\ inc = {} => (res.msg = <<>> /\ res.delivered = 0 /\ ~res.returned)

C7_Witness ==
    /\ mail_out # None /\ mail_out[1].msg # <<>> /\ mail_out[1].returned
    /\ \E k \in DOMAIN mail_in.changes :
          mail_in.changes[k].current < mail_in.changes[k].previous
    /\ Len(mail_out[1].msg[1].sections) = 1

(***************************************************************************)
(* Properties of a run of main()                                           *)
(***************************************************************************)
CallsOf(fn) == {n \in 1..Len(calls) : calls[n].fn = fn}
Attempted == CallsOf("send_email_alert") # {}

\* the count the loop works with for a source it handled without error
Cur(k) == IF seen[k].count = None THEN 0 ELSE seen[k].count[1]
Handled(k) == k \in DOMAIN seen /\ seen[k].nav = "ok"

C1_WitnessQuiet ==
    /\ pc = "done" /\ started /\ ~Attempted
    /\ DOMAIN job_changes # {}
    /\ \E k \in Sources : Handled(k) /\ k \notin DOMAIN known_counts /\ Cur(k) > 0

C4_WitnessAllFailed ==
    /\ pc = "done" /\ started
    /\ \A k \in Sources : k \in DOMAIN seen /\ seen[k].nav = "raise"

\* C5: an error raised while one source is processed leaves every other
\* source processed in the same run, and the change and increase records of
\* each source are those given by its own stored and extracted counts alone.
C5_SourceFailureIsolated ==
    /\ (pc \in {"notify", "save", "done"} /\ started) => DOMAIN seen = Sources
    /\ \A k \in Sources :
         LET rec == ChangeRec(k, known_counts[k], Cur(k))
             changed == Handled(k) /\ k \in DOMAIN known_counts /\ Cur(k) # known_counts[k]
         IN  /\ k \in DOMAIN changes <=> changed
             /\ k \in DOMAIN changes => changes[k] = rec
             /\ k \in DOMAIN increases <=> (changed /\ Cur(k) > known_counts[k])
             /\ k \in DOMAIN increases => increases[k] = rec

C5_Witness ==
    /\ pc = "notify"
    /\ seen["s1"].nav = "raise"
    /\ "s2" \in DOMAIN increases

C5_WitnessLater ==
    /\ pc = "notify"
    /\ "s1" \in DOMAIN increases
    /\ seen["s2"].nav = "raise"

\* the sources named in the call of send_email_alert, if one was made
AlertedFor(k) == \E n \in CallsOf("send_email_alert") : k \in DOMAIN calls[n].arg
InRun == pc \in {"loop", "notify", "save"}

\* C8: a source without a stored count gets no change record and no alert in
\* that run while its extracted count is recorded and handed to
\* save_job_counts; when that save succeeded, the next run compares the
\* source against exactly the count recorded.
C8_FirstObservation ==
    \A k \in Sources :
      /\ (Handled(k) /\ k \notin DOMAIN known_counts) =>
            /\ seen[k].previous_count = None
            /\ k \notin DOMAIN changes /\ k \notin DOMAIN increases
            /\ ~AlertedFor(k)
            /\ k \in DOMAIN current_counts /\ current_counts[k] = Cur(k)
            /\ \A n \in CallsOf("save_job_counts") : calls[n].arg[k] = Cur(k)
      /\ (InRun /\ last.saved /\ k \in last.first /\ Handled(k)) =>
            /\ seen[k].previous_count = Some(last.recorded[k])
            /\ k \in DOMAIN changes <=> Cur(k) # last.recorded[k]
            /\ k \in DOMAIN changes =>
                 changes[k] = ChangeRec(k, last.recorded[k], Cur(k))

C8_Witness ==
    /\ pc = "save" /\ last.saved
    /\ \E k \in last.first :
          /\ Handled(k) /\ last.recorded[k] = 1 /\ k \in DOMAIN changes
          /\ seen[k].count = Some(0)

ConfigMissing(env) ==
    \/ env.SENDER_EMAIL = "" \/ env.SENDER_PASSWORD = ""
    \/ recipient_list(env) = <<>>

\* C10: when a credential or the recipient list is missing, or the transport
\* raises, send_email_alert returns False without raising and without a
\* further or repeated send, and main() still calls both saves with the
\* current mappings and returns True.
C10_NotificationFailureHarmless ==
    (alert # None /\ (ConfigMissing(alert[1].env)
                      \/ alert[1].smtp \in SmtpOutcomes \ {"ok"}))
    => /\ ~alert[1].res.raised
       /\ ~alert[1].res.returned
       /\ alert[1].res.delivered = (IF alert[1].smtp = "raise_after_send" THEN 1 ELSE 0)
       /\ ConfigMissing(alert[1].env) => alert[1].res.msg = <<>>
       /\ Cardinality(CallsOf("send_email_alert")) = 1
       /\ pc \in {"save", "done"}
       /\ pc = "done" =>
            /\ result = "True"
            /\ \E n \in CallsOf("save_job_counts") : calls[n].arg = current_counts
            /\ \E n \in CallsOf("save_top_jobs") : calls[n].arg = current_top_jobs

C10_Witness ==
    /\ pc = "done" /\ alert # None
    /\ alert[1].smtp = "raise_before_send"
    /\ result = "True"

C10_WitnessNoPassword ==
    /\ pc = "done" /\ alert # None
    /\ alert[1].env.SENDER_PASSWORD = ""
    /\ result = "True"

Raised(k) == k \in DOMAIN seen /\ seen[k].nav = "raise"
SaveOk(fn) == \E n \in CallsOf(fn) : calls[n].outcome = "ok"

C11_WitnessErased ==
    /\ pc = "done" /\ started
    /\ \E k \in Sources :
          /\ Raised(k) /\ k \in DOMAIN known_counts /\ k \in DOMAIN known_top_jobs
          /\ SaveOk("save_job_counts") /\ SaveOk("save_top_jobs")

====
